---------------------------- MODULE Spec2Model ----------------------------
(***************************************************************************)
(* Draft coordination engine of golf-server (src/server.js, the revision   *)
(* that starts at line 348): the socket.io handlers join-draft,            *)
(* assign-team, start-draft, draft-pick and disconnect, acting on the      *)
(* league records persisted in leagues.json.                               *)
(*                                                                         *)
(* Every handler is one run-to-completion callback of the Node event loop, *)
(* so it is one atomic action, except join-draft, which awaits             *)
(* fetchPlayers() between reading leagues.json and writing it back: it is  *)
(* two actions (JoinDraft up to the await, JoinDraftResume after it).      *)
(*                                                                         *)
(* Spec is the engine on one league under the socket commands. SnakeSpec   *)
(* follows the turn over a long draft, LobbySpec has sessions holding      *)
(* slots in two leagues, ServiceSpec adds POST /leagues (which also awaits *)
(* fetchPlayers() between its read and its write) and UpdateSpec adds      *)
(* PUT /leagues/:id.                                                       *)
(***************************************************************************)
EXTENDS Integers, Sequences, FiniteSets, TLC

VARIABLES
    leagues,     \* data.leagues of leagues.json: league id -> league record
    sockets,     \* socket id -> "connected" | "closed"
    joins,       \* client -> its handler suspended at await fetchPlayers():
                 \* join-draft of a socket, POST /leagues of the HTTP client
    fetches,     \* number of fetchPlayers calls those handlers made
    seeded,      \* history: league id -> canonical ids ever put in its pool
    last,        \* the handler that ran last and the line it returned at
    out          \* what that handler emitted (socket.emit / io.emit)

vars == <<leagues, sockets, joins, fetches, seeded, last, out>>

---------------------------------------------------------------------------
(* Bounds of the model *)

MaxTeams == 2        \* leagues are created with 1..MaxTeams team names
MaxSockets == 2      \* socket ids 1..MaxSockets
MaxPicks == 7        \* picks explored in a league of one team
MaxPicksMulti == 2   \* picks explored in a league of several teams
MaxChoice == 1       \* a pick names one of the first MaxChoice available players
FetchedSize == 6     \* size of a full field returned by fetchPlayers
SmallField == 2      \* size of a short field returned by fetchPlayers
MaxFetches == 2      \* fetchPlayers calls of join-draft explored
SnakeTeams == 4      \* team names of the leagues of SnakeSpec
SnakePool == 10      \* size of the field the leagues of SnakeSpec are seeded with
SnakePicks == 10     \* picks explored in SnakeSpec
MaxLeagues == 2      \* leagues in the store of ServiceSpec
ServiceTeams == 1    \* team names of the leagues of ServiceSpec
ServicePicks == 2    \* picks explored in a league of ServiceSpec, of LobbySpec
ServiceSockets == 1  \* sockets 1..ServiceSockets send commands in ServiceSpec
UpdateTeams == 2     \* team names of the league of UpdateSpec
UpdateSockets == 1   \* sockets 1..UpdateSockets send commands in UpdateSpec
LobbyTeams == 2      \* team names of the leagues of LobbySpec
MaxCreations == 2    \* POST /leagues requests that can be in flight together

(* Program constants *)

RosterSize == 6      \* t.length === 6

SocketIds == 1..MaxSockets
LeagueId == 1                      \* nextId of the first league created
MissingLeagueId == LeagueId + 1    \* an id no league of the store has
LeagueIdInputs == {LeagueId, MissingLeagueId}
UnknownPlayer == FetchedSize + 1   \* a dg_id that is in no pool

---------------------------------------------------------------------------
(* Player identifiers: a JSON number or a JSON string of its digits *)

Num(n) == [type |-> "number", v |-> n]
Str(n) == [type |-> "string", v |-> n]

\* String(x): a number becomes the string of its digits, a string is kept
String(id) == [type |-> "string", v |-> id.v]

Player(id) == [id |-> id]

\* the fallback list fetchPlayers returns when a feed request fails
FallbackPlayers ==
    << Player(Num(12345)), Player(Num(67890)), Player(Num(54321)),
       Player(Num(98765)), Player(Num(45678)) >>

\* the list fetchPlayers builds from a field feed of k entries (ids are the
\* dg_id numbers of the feed)
FetchedPlayers(k) == [i \in 1..k |-> Player(Num(i))]

\* what fetchPlayers() can resolve to: the field (full, short or empty) or
\* the fallback list
fetchPlayers ==
    {FetchedPlayers(FetchedSize), FetchedPlayers(SmallField), FetchedPlayers(0),
     FallbackPlayers}

CanonicalIds(players) == {String(players[i].id) : i \in DOMAIN players}

---------------------------------------------------------------------------
(* League records *)

EmptyTeams(n) == [t \in 0..(n - 1) |-> <<>>]

TeamNames(n) == [i \in 1..n |-> i]

\* the record POST /leagues stores (request without a teams field)
newLeague(n, availablePlayers) ==
    [ teams            |-> EmptyTeams(n),
      teamNames        |-> TeamNames(n),
      availablePlayers |-> availablePlayers,
      currentTeamIndex |-> 0,
      snakeDirection   |-> 1,
      isDrafting       |-> FALSE,
      draftComplete    |-> FALSE,
      teamOwners       |-> << >> ]

NoLast == [cmd |-> "none", leagueId |-> 0, ret |-> 0, threw |-> FALSE]

Init ==
    /\ \E n \in 0..MaxTeams, players \in fetchPlayers \ {<< >>} :
          /\ leagues = (LeagueId :> newLeague(n, players))
          /\ seeded = (LeagueId :> CanonicalIds(players))
    /\ sockets = [s \in SocketIds |-> "connected"]
    /\ joins = << >>
    /\ fetches = 0
    /\ last = NoLast
    /\ out = << >>

---------------------------------------------------------------------------
(* Emitted events *)

Connected == {s \in SocketIds : sockets[s] = "connected"}

\* the payload of draft-status (teamNames included) and of draft-update
DraftState(league) ==
    [ teams            |-> league.teams,
      availablePlayers |-> league.availablePlayers,
      currentTeamIndex |-> league.currentTeamIndex,
      snakeDirection   |-> league.snakeDirection,
      isDrafting       |-> league.isDrafting,
      draftComplete    |-> league.draftComplete ]

\* mutant: the snapshot is sent to every connected socket
DraftStatus_Broadcast(s, league) ==
    [ev |-> "draft-status", to |-> Connected, error |-> "", state |-> DraftState(league)]

\* socket.emit('draft-status', {...}) to the joining socket
DraftStatus(s, league) ==
    [ev |-> "draft-status", to |-> {s}, error |-> "", state |-> DraftState(league)]

DraftStatusError(s, message) ==
    [ev |-> "draft-status", to |-> {s}, error |-> message]

\* socket.emit('team-assigned', {...}) to the claiming socket
TeamAssigned(s, success, message) ==
    [ev |-> "team-assigned", to |-> {s}, success |-> success, message |-> message]

\* mutant: the broadcast carries the record as it was before the handler
DraftUpdate_Stale(l, league) ==
    [ev |-> "draft-update", to |-> Connected, leagueId |-> l,
     state |-> DraftState(leagues[l])]

\* io.emit('draft-update', {...}) to every connected socket
DraftUpdate(l, league) ==
    [ev |-> "draft-update", to |-> Connected, leagueId |-> l,
     state |-> DraftState(league)]

Result(data, ret, threw, events) ==
    [data |-> data, ret |-> ret, threw |-> threw, out |-> events]

---------------------------------------------------------------------------
(* socket.on('assign-team') *)

\* mutant: the claim overwrites whoever holds the slot
SlotFree_Overwrite(league, teamIndex, s) == TRUE

\* the slot is free for s: unclaimed, or already claimed by s
SlotFree(league, teamIndex, s) ==
    \/ teamIndex \notin DOMAIN league.teamOwners
    \/ league.teamOwners[teamIndex] = s

SetOwner(teamOwners, teamIndex, s) ==
    [t \in DOMAIN teamOwners \cup {teamIndex} |->
        IF t = teamIndex THEN s ELSE teamOwners[t]]

\* mutant: the draftComplete test is missing
assignTeam_NoCompleteTest(data, s, l, teamIndex) ==
    IF l \notin DOMAIN data
    THEN Result(data, 675, FALSE, <<TeamAssigned(s, FALSE, "League not found.")>>)
    ELSE IF SlotFree(data[l], teamIndex, s)
    THEN Result([data EXCEPT ![l].teamOwners = SetOwner(@, teamIndex, s)],
                690, FALSE, <<TeamAssigned(s, TRUE, "")>>)
    ELSE Result(data, 693, FALSE,
                <<TeamAssigned(s, FALSE, "Team already taken by another user.")>>)

assignTeam(data, s, l, teamIndex) ==
    IF l \notin DOMAIN data
    THEN Result(data, 675, FALSE, <<TeamAssigned(s, FALSE, "League not found.")>>)
    ELSE IF data[l].draftComplete
    THEN Result(data, 680, FALSE,
                <<TeamAssigned(s, FALSE, "Draft is already complete. You cannot change teams.")>>)
    ELSE IF SlotFree(data[l], teamIndex, s)
    THEN Result([data EXCEPT ![l].teamOwners = SetOwner(@, teamIndex, s)],
                690, FALSE, <<TeamAssigned(s, TRUE, "")>>)
    ELSE Result(data, 693, FALSE,
                <<TeamAssigned(s, FALSE, "Team already taken by another user.")>>)

---------------------------------------------------------------------------
(* socket.on('start-draft') *)

\* mutant: a start is applied to a league that is already drafting
startDraft_Restart(data, l) ==
    IF l \notin DOMAIN data
    THEN Result(data, 700, FALSE, << >>)
    ELSE LET league == [data[l] EXCEPT
                           !.isDrafting = TRUE,
                           !.currentTeamIndex = 0,
                           !.snakeDirection = 1,
                           !.draftComplete = FALSE,
                           !.teams = EmptyTeams(Len(data[l].teamNames))]
         IN  Result([data EXCEPT ![l] = league], 727, FALSE,
                    <<DraftUpdate(l, league)>>)

startDraft(data, l) ==
    IF l \notin DOMAIN data \/ data[l].isDrafting
    THEN Result(data, 700, FALSE, << >>)
    ELSE LET league == [data[l] EXCEPT
                           !.isDrafting = TRUE,
                           !.currentTeamIndex = 0,
                           !.snakeDirection = 1,
                           !.draftComplete = FALSE,
                           !.teams = EmptyTeams(Len(data[l].teamNames))]
         IN  Result([data EXCEPT ![l] = league], 727, FALSE,
                    <<DraftUpdate(l, league)>>)

---------------------------------------------------------------------------
(* socket.on('draft-pick') *)

\* mutant: the isDrafting test is missing
IsDraftable_NoDraftingTest(data, l) ==
    /\ l \in DOMAIN data
    /\ ~data[l].draftComplete

\* mutant: the draftComplete test is missing
IsDraftable_NoCompleteTest(data, l) ==
    /\ l \in DOMAIN data
    /\ data[l].isDrafting

\* if (!league || !league.isDrafting || league.draftComplete) return;
IsDraftable(data, l) ==
    /\ l \in DOMAIN data
    /\ data[l].isDrafting
    /\ ~data[l].draftComplete

\* mutant: any socket may pick for a claimed slot
OwnsTeam_AnyClaimed(league, teamIndex, s) ==
    teamIndex \in DOMAIN league.teamOwners

\* league.teamOwners[teamIndex] === socket.id
OwnsTeam(league, teamIndex, s) ==
    /\ teamIndex \in DOMAIN league.teamOwners
    /\ league.teamOwners[teamIndex] = s

\* mutant: the availability test passes whenever the pool is not empty
IsAvailable_AnyLeft(league, player) ==
    league.availablePlayers # << >>

\* league.availablePlayers.some(p => String(p.id) === String(player.id))
IsAvailable(league, player) ==
    \E i \in DOMAIN league.availablePlayers :
        String(league.availablePlayers[i].id) = String(player.id)

\* league.availablePlayers.filter(p => String(p.id) !== String(player.id))
RemovePlayer(availablePlayers, player) ==
    LET Keep(p) == String(p.id) # String(player.id)
    IN  SelectSeq(availablePlayers, Keep)

\* mutant: the turn bounces at the ends without repeating the end slot
NextTurn_Bounce(league) ==
    LET n == Len(league.teamNames)
        nextTeamIndex == league.currentTeamIndex + league.snakeDirection
    IN  IF nextTeamIndex >= n
        THEN [currentTeamIndex |-> IF n >= 2 THEN n - 2 ELSE 0, snakeDirection |-> -1]
        ELSE IF nextTeamIndex < 0
        THEN [currentTeamIndex |-> IF n >= 2 THEN 1 ELSE 0, snakeDirection |-> 1]
        ELSE [currentTeamIndex |-> nextTeamIndex,
              snakeDirection |-> league.snakeDirection]

\* the snake order: the next currentTeamIndex and snakeDirection
NextTurn(league) ==
    LET nextTeamIndex == league.currentTeamIndex + league.snakeDirection
    IN  IF nextTeamIndex >= Len(league.teamNames)
        THEN [currentTeamIndex |-> Len(league.teamNames) - 1, snakeDirection |-> -1]
        ELSE IF nextTeamIndex < 0
        THEN [currentTeamIndex |-> 0, snakeDirection |-> 1]
        ELSE [currentTeamIndex |-> nextTeamIndex,
              snakeDirection |-> league.snakeDirection]

\* league.teams.every(t => t.length === 6)
AllTeamsFull(teams) ==
    \A t \in DOMAIN teams : Len(teams[t]) = RosterSize

\* the league record after an accepted pick
ApplyPick(league, teamIndex, player) ==
    LET teams == [league.teams EXCEPT ![teamIndex] = Append(@, player)]
        turn  == NextTurn(league)
    IN  [league EXCEPT
            !.teams = teams,
            !.availablePlayers = RemovePlayer(@, player),
            !.currentTeamIndex = turn.currentTeamIndex,
            !.snakeDirection = turn.snakeDirection,
            !.draftComplete = AllTeamsFull(teams)]

draftPick(data, s, l, teamIndex, player) ==
    IF ~IsDraftable(data, l)
    THEN Result(data, 732, FALSE, << >>)
    ELSE IF ~OwnsTeam(data[l], teamIndex, s)
    THEN Result(data, 736, FALSE, << >>)
    ELSE IF ~IsAvailable(data[l], player)
    THEN Result(data, 745, FALSE, << >>)
    ELSE IF teamIndex \notin DOMAIN data[l].teams
    \* league.teams[teamIndex] is undefined: push throws a TypeError
    THEN Result(data, 749, TRUE, << >>)
    ELSE LET league == ApplyPick(data[l], teamIndex, player)
         IN  Result([data EXCEPT ![l] = league], 777, FALSE,
                    <<DraftUpdate(l, league)>>)

---------------------------------------------------------------------------
(* socket.on('disconnect') *)

\* mutant: the disconnect drops the entries of every socket
ReleaseOwner_All(teamOwners, s) == << >>

\* delete league.teamOwners[teamIndex] for every slot s owns
ReleaseOwner(teamOwners, s) ==
    [t \in {x \in DOMAIN teamOwners : teamOwners[x] # s} |-> teamOwners[t]]

disconnect(data, s) ==
    Result([l \in DOMAIN data |->
               [data[l] EXCEPT !.teamOwners = ReleaseOwner(@, s)]],
           795, FALSE, << >>)

---------------------------------------------------------------------------
(* socket.on('join-draft') *)

\* if (!league.teams || league.teams.length === 0) league.teams = [...]
WithTeams(league) ==
    IF DOMAIN league.teams = {}
    THEN [league EXCEPT !.teams = EmptyTeams(Len(league.teamNames))]
    ELSE league

\* from the teams check to the draft-status emit; data is the handler's copy
\* of the file, written back only if the teams had to be created
joinFinish(file, data, s, l, wrote) ==
    LET league == WithTeams(data[l])
        written == IF league # data[l] THEN [data EXCEPT ![l] = league]
                   ELSE IF wrote THEN data ELSE file
    IN  Result(written, 668, FALSE, <<DraftStatus(s, league)>>)

\* up to the await: TRUE when the handler has to fetch the pool
JoinAwaits(data, l) ==
    /\ l \in DOMAIN data
    /\ data[l].availablePlayers = << >>

joinDraft(data, s, l) ==
    IF l \notin DOMAIN data
    THEN Result(data, 629, FALSE, <<DraftStatusError(s, "League not found")>>)
    ELSE joinFinish(data, data, s, l, FALSE)

\* after the await: data is the copy read before it, file the current file
joinDraftResume(file, data, s, l, fetchedPlayers) ==
    IF fetchedPlayers = << >>
    THEN Result(file, 639, FALSE,
                <<DraftStatusError(s, "Failed to fetch player data. Please try again later.")>>)
    ELSE joinFinish(file,
                    [data EXCEPT ![l].availablePlayers = fetchedPlayers],
                    s, l, TRUE)

---------------------------------------------------------------------------
(* Inputs of the commands *)

RECURSIVE SumLen(_, _)
SumLen(teams, n) ==
    IF n = 0 THEN 0 ELSE Len(teams[n - 1]) + SumLen(teams, n - 1)

\* the number of players on the rosters of a league
TotalPicked(league) == SumLen(league.teams, Len(league.teamNames))

\* team indices a client sends: the slots of the league and, explored for a
\* league of at most one team, one index beyond them
TeamIndexInputs(data, l) ==
    IF l \notin DOMAIN data THEN {0}
    ELSE IF Len(data[l].teamNames) <= 1 THEN 0..Len(data[l].teamNames)
    ELSE 0..(Len(data[l].teamNames) - 1)

\* ids a client asks for: the top of the displayed pool, players already
\* drafted, and one that is in no pool
PickIdInputs(data, l) ==
    IF l \notin DOMAIN data THEN {UnknownPlayer}
    ELSE LET league == data[l]
             top == {league.availablePlayers[i].id.v :
                        i \in DOMAIN league.availablePlayers \cap 1..MaxChoice}
             drafted == {league.teams[t][1].id.v :
                            t \in {x \in DOMAIN league.teams : league.teams[x] # << >>}}
         IN  top \cup drafted \cup {UnknownPlayer}

\* how the client behind a socket encodes player.id in its requests
ClientIdType(s) == IF s = 1 THEN "number" ELSE "string"

\* the player objects a client sends
PlayerInputs(data, l, s) ==
    {Player([type |-> ClientIdType(s), v |-> n]) : n \in PickIdInputs(data, l)}

\* accepted picks are explored while the rosters hold fewer than this
PickBudget(league) ==
    IF Len(league.teamNames) = 1 THEN MaxPicks ELSE MaxPicksMulti

---------------------------------------------------------------------------
(* Actions *)

\* handler cmd ran on league l with result r
Ran(cmd, l, r) ==
    /\ leagues' = r.data
    /\ last' = [cmd |-> cmd, leagueId |-> l, ret |-> r.ret, threw |-> r.threw]
    /\ out' = r.out

AssignTeam(s, l, teamIndex) ==
    /\ sockets[s] = "connected"
    /\ Ran("assign-team", l, assignTeam(leagues, s, l, teamIndex))
    /\ UNCHANGED <<sockets, joins, fetches, seeded>>

StartDraft(s, l) ==
    /\ sockets[s] = "connected"
    /\ Ran("start-draft", l, startDraft(leagues, l))
    /\ UNCHANGED <<sockets, joins, fetches, seeded>>

DraftPick(s, l, teamIndex, player) ==
    /\ sockets[s] = "connected"
    /\ LET r == draftPick(leagues, s, l, teamIndex, player)
       IN  /\ r.ret = 777 => TotalPicked(leagues[l]) < PickBudget(leagues[l])
           /\ Ran("draft-pick", l, r)
    /\ UNCHANGED <<sockets, joins, fetches, seeded>>

Disconnect(s) ==
    /\ sockets[s] = "connected"
    /\ Ran("disconnect", 0, disconnect(leagues, s))
    /\ sockets' = [sockets EXCEPT ![s] = "closed"]
    /\ UNCHANGED <<joins, fetches, seeded>>

JoinDraft(s, l) ==
    /\ sockets[s] = "connected"
    /\ s \notin DOMAIN joins
    /\ IF JoinAwaits(leagues, l)
       THEN /\ fetches < MaxFetches
            /\ fetches' = fetches + 1
            /\ joins' = [x \in DOMAIN joins \cup {s} |->
                            IF x = s THEN [leagueId |-> l, data |-> leagues]
                            ELSE joins[x]]
            /\ last' = [cmd |-> "join-draft", leagueId |-> l, ret |-> 636,
                     threw |-> FALSE]
            /\ out' = << >>
            /\ UNCHANGED leagues
       ELSE /\ Ran("join-draft", l, joinDraft(leagues, s, l))
            /\ UNCHANGED <<joins, fetches>>
    /\ UNCHANGED <<sockets, seeded>>

JoinDraftResume(s) ==
    /\ s \in DOMAIN joins
    /\ \E fetchedPlayers \in fetchPlayers :
          LET j == joins[s]
              r == joinDraftResume(leagues, j.data, s, j.leagueId, fetchedPlayers)
          IN  /\ Ran("join-draft", j.leagueId, r)
              /\ seeded' = IF r.ret = 668
                           THEN [seeded EXCEPT ![j.leagueId] =
                                    @ \cup CanonicalIds(fetchedPlayers)]
                           ELSE seeded
    /\ joins' = [x \in DOMAIN joins \ {s} |-> joins[x]]
    /\ UNCHANGED <<sockets, fetches>>

Next ==
    \/ \E s \in SocketIds, l \in LeagueIdInputs : JoinDraft(s, l)
    \/ \E s \in SocketIds : JoinDraftResume(s)
    \/ \E s \in SocketIds, l \in LeagueIdInputs :
          \E teamIndex \in TeamIndexInputs(leagues, l) : AssignTeam(s, l, teamIndex)
    \/ \E s \in SocketIds, l \in LeagueIdInputs : StartDraft(s, l)
    \/ \E s \in SocketIds, l \in LeagueIdInputs :
          \E teamIndex \in TeamIndexInputs(leagues, l),
             player \in PlayerInputs(leagues, l, s) : DraftPick(s, l, teamIndex, player)
    \/ \E s \in SocketIds : Disconnect(s)

Spec == Init /\ [][Next]_vars

---------------------------------------------------------------------------
(* The draft engine inside the HTTP service. ServiceSpec: the socket       *)
(* commands together with POST /leagues, which awaits fetchPlayers()       *)
(* between reading leagues.json and writing it back. UpdateSpec: the       *)
(* socket commands on one league together with PUT /leagues/:id.           *)

HttpClient == 0

\* the HTTP requests that can be in flight: 0, -1, ...
HttpClients == (1 - MaxCreations)..HttpClient

HttpResponse(status, body) ==
    [ev |-> "http", to |-> {HttpClient}, status |-> status, body |-> body]

RECURSIVE MaxOf(_)
MaxOf(S) ==
    IF S = {} THEN 0
    ELSE LET x == CHOOSE y \in S : TRUE
             m == MaxOf(S \ {x})
         IN  IF x > m THEN x ELSE m

\* Math.max(0, ...Object.keys(data.leagues).map(Number)) + 1
nextId(data) == MaxOf(DOMAIN data) + 1

\* POST /leagues after the await: data is the copy read before it
postLeagues(file, data, id, n, availablePlayers) ==
    IF availablePlayers = << >>
    THEN Result(file, 558, FALSE,
                <<HttpResponse(500, "Failed to fetch player data. Cannot create league.")>>)
    ELSE Result([l \in DOMAIN data \cup {id} |->
                    IF l = id THEN newLeague(n, availablePlayers) ELSE data[l]],
                578, FALSE, <<HttpResponse(201, id)>>)

\* { ...league, ...req.body }
Merge(league, body) ==
    [f \in DOMAIN league \cup DOMAIN body |->
        IF f \in DOMAIN body THEN body[f] ELSE league[f]]

\* PUT /leagues/:id
putLeague(data, l, body) ==
    IF l \notin DOMAIN data
    THEN Result(data, 589, FALSE, <<HttpResponse(404, "League not found")>>)
    ELSE LET league == Merge(data[l], body)
         IN  Result([data EXCEPT ![l] = league], 593, FALSE,
                    <<HttpResponse(200, league)>>)

\* request bodies of PUT explored: one that empties the pool, one that
\* reopens the league for a start
PutBodies ==
    { [availablePlayers |-> << >>], [isDrafting |-> FALSE] }

ServiceLeagueIds == 1..MaxLeagues

ServiceInit ==
    /\ leagues = (LeagueId :> newLeague(ServiceTeams, FetchedPlayers(SmallField)))
    /\ seeded = (LeagueId :> CanonicalIds(FetchedPlayers(SmallField)))
    /\ sockets = [s \in SocketIds |-> "connected"]
    /\ joins = << >>
    /\ fetches = 0
    /\ last = NoLast
    /\ out = << >>

\* POST /leagues up to the await
PostLeagues(c, n) ==
    /\ c \notin DOMAIN joins
    /\ Cardinality(DOMAIN leagues) < MaxLeagues
    /\ fetches < MaxFetches
    /\ fetches' = fetches + 1
    /\ joins' = [x \in DOMAIN joins \cup {c} |->
                    IF x = c
                    THEN [leagueId |-> nextId(leagues), data |-> leagues,
                          teamNames |-> n]
                    ELSE joins[x]]
    /\ last' = [cmd |-> "post-leagues", leagueId |-> nextId(leagues), ret |-> 555,
             threw |-> FALSE]
    /\ out' = << >>
    /\ UNCHANGED <<leagues, sockets, seeded>>

\* POST /leagues from the await on
PostLeaguesResume(c) ==
    /\ c \in DOMAIN joins
    /\ \E availablePlayers \in fetchPlayers :
          LET j == joins[c]
              r == postLeagues(leagues, j.data, j.leagueId, j.teamNames,
                               availablePlayers)
          IN  /\ Ran("post-leagues", j.leagueId, r)
              /\ seeded' = IF r.ret = 578
                           THEN [l \in DOMAIN seeded \cup {j.leagueId} |->
                                    IF l = j.leagueId
                                    THEN CanonicalIds(availablePlayers)
                                    ELSE seeded[l]]
                           ELSE seeded
    /\ joins' = [x \in DOMAIN joins \ {c} |-> joins[x]]
    /\ UNCHANGED <<sockets, fetches>>

PutLeague(l, body) ==
    /\ Ran("put-league", l, putLeague(leagues, l, body))
    /\ UNCHANGED <<sockets, joins, fetches, seeded>>

\* the draft-pick handler, explored for ServicePicks accepted picks a league
ServicePick(s, l, teamIndex, player) ==
    /\ sockets[s] = "connected"
    /\ LET r == draftPick(leagues, s, l, teamIndex, player)
       IN  /\ r.ret = 777 => TotalPicked(leagues[l]) < ServicePicks
           /\ Ran("draft-pick", l, r)
    /\ UNCHANGED <<sockets, joins, fetches, seeded>>

ServiceNext ==
    \/ \E c \in HttpClients : PostLeagues(c, ServiceTeams)
    \/ \E c \in HttpClients : PostLeaguesResume(c)
    \/ \E s \in 1..ServiceSockets, l \in ServiceLeagueIds : JoinDraft(s, l)
    \/ \E s \in 1..ServiceSockets : JoinDraftResume(s)
    \/ \E s \in 1..ServiceSockets, l \in ServiceLeagueIds :
          \E teamIndex \in TeamIndexInputs(leagues, l) : AssignTeam(s, l, teamIndex)
    \/ \E s \in 1..ServiceSockets, l \in ServiceLeagueIds : StartDraft(s, l)
    \/ \E s \in 1..ServiceSockets, l \in ServiceLeagueIds :
          \E teamIndex \in TeamIndexInputs(leagues, l),
             player \in PlayerInputs(leagues, l, s) : ServicePick(s, l, teamIndex, player)
    \/ \E s \in 1..ServiceSockets : Disconnect(s)

ServiceSpec == ServiceInit /\ [][ServiceNext]_vars

UpdateInit ==
    /\ leagues = (LeagueId :> newLeague(UpdateTeams, FetchedPlayers(SmallField)))
    /\ seeded = (LeagueId :> CanonicalIds(FetchedPlayers(SmallField)))
    /\ sockets = [s \in SocketIds |-> "connected"]
    /\ joins = << >>
    /\ fetches = 0
    /\ last = NoLast
    /\ out = << >>

UpdateNext ==
    \/ \E l \in LeagueIdInputs, body \in PutBodies : PutLeague(l, body)
    \/ \E s \in 1..UpdateSockets, l \in LeagueIdInputs : JoinDraft(s, l)
    \/ \E s \in 1..UpdateSockets : JoinDraftResume(s)
    \/ \E s \in 1..UpdateSockets, l \in LeagueIdInputs :
          \E teamIndex \in TeamIndexInputs(leagues, l) : AssignTeam(s, l, teamIndex)
    \/ \E s \in 1..UpdateSockets, l \in LeagueIdInputs : StartDraft(s, l)
    \/ \E s \in 1..UpdateSockets, l \in LeagueIdInputs :
          \E teamIndex \in TeamIndexInputs(leagues, l),
             player \in PlayerInputs(leagues, l, s) : DraftPick(s, l, teamIndex, player)
    \/ \E s \in 1..UpdateSockets : Disconnect(s)

UpdateSpec == UpdateInit /\ [][UpdateNext]_vars

---------------------------------------------------------------------------
(* A failing disk: writeJsonFile logs the error of fs.writeFileSync and    *)
(* throws it again, and draft-pick calls it outside any try block, after   *)
(* it has computed the pick on its copy of the record and before it emits. *)

\* draft-pick when the write of an accepted pick fails: the file keeps its
\* content, the exception leaves the handler at the call of writeJsonFile
draftPickWriteFails(data, s, l, teamIndex, player) ==
    IF draftPick(data, s, l, teamIndex, player).ret = 777
    THEN Result(data, 764, TRUE, << >>)
    ELSE draftPick(data, s, l, teamIndex, player)

DraftPickWriteFails(s, l, teamIndex, player) ==
    /\ sockets[s] = "connected"
    /\ LET r == draftPickWriteFails(leagues, s, l, teamIndex, player)
       IN  /\ r.ret = 764
           /\ leagues' = r.data
           /\ last' = [cmd |-> "draft-pick", leagueId |-> l, ret |-> r.ret,
                       threw |-> r.threw, teamIndex |-> teamIndex,
                       player |-> player]
           /\ out' = r.out
    /\ UNCHANGED <<sockets, joins, fetches, seeded>>

FaultNext ==
    \/ UpdateNext
    \/ \E s \in 1..UpdateSockets, l \in LeagueIdInputs :
          \E teamIndex \in TeamIndexInputs(leagues, l),
             player \in PlayerInputs(leagues, l, s) :
                DraftPickWriteFails(s, l, teamIndex, player)

FaultSpec == UpdateInit /\ [][FaultNext]_vars

---------------------------------------------------------------------------
(* Sessions that hold slots in several leagues: a store of MaxLeagues      *)
(* leagues as successive POST /leagues requests leave it, and the socket   *)
(* commands that claim, start, pick and disconnect.                        *)

LobbyInit ==
    /\ leagues = [l \in ServiceLeagueIds |->
                     newLeague(LobbyTeams, FetchedPlayers(FetchedSize))]
    /\ seeded = [l \in ServiceLeagueIds |-> CanonicalIds(FetchedPlayers(FetchedSize))]
    /\ sockets = [s \in SocketIds |-> "connected"]
    /\ joins = << >>
    /\ fetches = 0
    /\ last = NoLast
    /\ out = << >>

LobbyNext ==
    \/ \E s \in SocketIds, l \in ServiceLeagueIds :
          \E teamIndex \in TeamIndexInputs(leagues, l) : AssignTeam(s, l, teamIndex)
    \/ \E s \in SocketIds, l \in ServiceLeagueIds : StartDraft(s, l)
    \/ \E s \in SocketIds, l \in ServiceLeagueIds :
          \E teamIndex \in TeamIndexInputs(leagues, l),
             player \in PlayerInputs(leagues, l, s) : ServicePick(s, l, teamIndex, player)
    \/ \E s \in SocketIds : Disconnect(s)

LobbySpec == LobbyInit /\ [][LobbyNext]_vars

---------------------------------------------------------------------------
(* The turn engine over a long draft: one league of 1..SnakeTeams teams,   *)
(* one client that claims slots, starts the draft and picks the top        *)
(* available player for the slot on turn or for slot 0.                    *)

SnakeInit ==
    /\ \E n \in 1..SnakeTeams :
          /\ leagues = (LeagueId :> newLeague(n, FetchedPlayers(SnakePool)))
          /\ seeded = (LeagueId :> CanonicalIds(FetchedPlayers(SnakePool)))
    /\ sockets = [s \in SocketIds |-> "connected"]
    /\ joins = << >>
    /\ fetches = 0
    /\ last = NoLast
    /\ out = << >>

\* the draft-pick handler, explored for SnakePicks accepted picks
SnakePick(s, l, teamIndex, player) ==
    /\ sockets[s] = "connected"
    /\ LET r == draftPick(leagues, s, l, teamIndex, player)
       IN  /\ r.ret = 777 => TotalPicked(leagues[l]) < SnakePicks
           /\ Ran("draft-pick", l, r)
    /\ UNCHANGED <<sockets, joins, fetches, seeded>>

SnakeNext ==
    \/ \E teamIndex \in DOMAIN leagues[LeagueId].teams :
          AssignTeam(1, LeagueId, teamIndex)
    \/ StartDraft(1, LeagueId)
    \/ \E teamIndex \in {leagues[LeagueId].currentTeamIndex, 0} :
          \E player \in {Player(leagues[LeagueId].availablePlayers[i].id) :
                            i \in DOMAIN leagues[LeagueId].availablePlayers \cap 1..MaxChoice} :
             SnakePick(1, LeagueId, teamIndex, player)

SnakeSpec == SnakeInit /\ [][SnakeNext]_vars

---------------------------------------------------------------------------
(* Vocabulary of the properties *)

\* s is the recorded owner of slot teamIndex
RecordedOwner(league, teamIndex, s) ==
    /\ teamIndex \in DOMAIN league.teamOwners
    /\ league.teamOwners[teamIndex] = s

\* the player's id, in canonical string form, is in availablePlayers
InPool(league, player) ==
    String(player.id) \in CanonicalIds(league.availablePlayers)

\* teams whose roster holds the id (in canonical string form)
TeamsHolding(league, id) ==
    {t \in DOMAIN league.teams : id \in CanonicalIds(league.teams[t])}

\* number of places that hold the id: pool entries and roster entries
Places(league, id) ==
    Cardinality({i \in DOMAIN league.availablePlayers :
                    String(league.availablePlayers[i].id) = id})
    + SumLen([t \in DOMAIN league.teams |->
                 SelectSeq(league.teams[t], LAMBDA p : String(p.id) = id)],
             Len(league.teamNames))

EveryRosterHasSix(league) ==
    \A t \in DOMAIN league.teams : Len(league.teams[t]) = 6

\* the step is the draft-pick handler run by s for (l, teamIndex, player)
PickStep(s, l, teamIndex, player) == DraftPick(s, l, teamIndex, player)

\* the step is a draft-pick of league l by anyone
SomePickStep(l) ==
    \E s \in SocketIds :
        \E teamIndex \in TeamIndexInputs(leagues, l),
           player \in PlayerInputs(leagues, l, s) :
            PickStep(s, l, teamIndex, player)

---------------------------------------------------------------------------
(* C1: while a league is drafting, a pick for slot teamIndex by the socket *)
(* that owns it is accepted only when teamIndex = currentTeamIndex; a pick *)
(* for any other slot changes neither teams, availablePlayers,             *)
(* currentTeamIndex nor snakeDirection.                                    *)
C1_TurnOrderEnforced ==
    [][\A s \in SocketIds, l \in DOMAIN leagues :
         \A teamIndex \in TeamIndexInputs(leagues, l),
            player \in PlayerInputs(leagues, l, s) :
              ( /\ PickStep(s, l, teamIndex, player)
                /\ leagues[l].isDrafting
                /\ RecordedOwner(leagues[l], teamIndex, s)
                /\ teamIndex # leagues[l].currentTeamIndex )
              => /\ leagues'[l].teams = leagues[l].teams
                 /\ leagues'[l].availablePlayers = leagues[l].availablePlayers
                 /\ leagues'[l].currentTeamIndex = leagues[l].currentTeamIndex
                 /\ leagues'[l].snakeDirection = leagues[l].snakeDirection
      ]_vars

(* C2: every player id seeded into a league is in exactly one place: in    *)
(* availablePlayers or on exactly one roster, never both, never twice,     *)
(* never nowhere.                                                          *)
C2_ExactlyOnePlace ==
    \A l \in DOMAIN leagues :
        \A id \in seeded[l] : Places(leagues[l], id) = 1

(* C3: when two sockets owning different slots of a drafting league both   *)
(* pick the same available player, then in either order of the two         *)
(* handlers exactly one pick is accepted and the player is on exactly one  *)
(* team afterwards.                                                        *)
C3_RacingPicksOneWinner ==
    \A l \in DOMAIN leagues :
      \A a \in Connected, b \in Connected :
        \A ta \in DOMAIN leagues[l].teams, tb \in DOMAIN leagues[l].teams,
           i \in DOMAIN leagues[l].availablePlayers :
          ( /\ a # b /\ ta # tb
            /\ leagues[l].isDrafting /\ ~leagues[l].draftComplete
            /\ RecordedOwner(leagues[l], ta, a)
            /\ RecordedOwner(leagues[l], tb, b) )
          => LET v == leagues[l].availablePlayers[i].id.v
                 first == draftPick(leagues, a, l, ta,
                              Player([type |-> ClientIdType(a), v |-> v]))
                 second == draftPick(first.data, b, l, tb,
                              Player([type |-> ClientIdType(b), v |-> v]))
             IN  /\ (first.ret = 777) # (second.ret = 777)
                 /\ Cardinality(TeamsHolding(second.data[l], Str(v))) = 1

(* C4: the roster lengths plus the size of availablePlayers add up to the  *)
(* number of players seeded into the league.                               *)
C4_Conservation ==
    \A l \in DOMAIN leagues :
        TotalPicked(leagues[l]) + Len(leagues[l].availablePlayers)
            = Cardinality(seeded[l])

(* C5: on a league whose draft is not complete, a claim of an unclaimed    *)
(* slot by a socket succeeds and records it as owner; a claim of a slot    *)
(* held by another socket is answered "Team already taken by another       *)
(* user." and leaves the owner in place; a re-claim by the owner succeeds  *)
(* and leaves the owner in place. No claim changes the owner of another    *)
(* slot, so a slot never has two owners.                                   *)
C5_ClaimSlot ==
    [][\A s \in SocketIds, l \in DOMAIN leagues :
         \A teamIndex \in TeamIndexInputs(leagues, l) :
           ( AssignTeam(s, l, teamIndex) /\ ~leagues[l].draftComplete )
           => LET before == leagues[l].teamOwners
                  after  == leagues'[l].teamOwners
                  taken  == /\ teamIndex \in DOMAIN before
                            /\ before[teamIndex] # s
              IN  /\ taken =>
                        /\ after = before
                        /\ out' = <<TeamAssigned(s, FALSE,
                                       "Team already taken by another user.")>>
                  /\ ~taken =>
                        /\ RecordedOwner(leagues'[l], teamIndex, s)
                        /\ out' = <<TeamAssigned(s, TRUE, "")>>
                  /\ \A t \in DOMAIN before \ {teamIndex} :
                        t \in DOMAIN after /\ after[t] = before[t]
                  /\ DOMAIN after \subseteq DOMAIN before \cup {teamIndex}
      ]_vars

\* socket b was just refused a slot that socket a holds
C5_Witness ==
    /\ last.cmd = "assign-team" /\ last.ret = 693
    /\ \E a \in SocketIds : \E b \in SocketIds \ {a} :
          /\ out = <<TeamAssigned(b, FALSE, "Team already taken by another user.")>>
          /\ \E t \in DOMAIN leagues[LeagueId].teamOwners :
                leagues[LeagueId].teamOwners[t] = a

(* C6: a pick for slot teamIndex by a socket that is not the recorded      *)
(* owner of it (unclaimed, or claimed by another socket) leaves the league *)
(* record unchanged and emits nothing.                                     *)
C6_NonOwnerPickRejected ==
    [][\A s \in SocketIds, l \in DOMAIN leagues :
         \A teamIndex \in TeamIndexInputs(leagues, l),
            player \in PlayerInputs(leagues, l, s) :
              ( /\ PickStep(s, l, teamIndex, player)
                /\ ~RecordedOwner(leagues[l], teamIndex, s) )
              => leagues' = leagues /\ out' = << >>
      ]_vars

\* a pick of an available player in a drafting league was just refused at
\* the ownership test, the slot being held by another socket
C6_Witness ==
    /\ last.cmd = "draft-pick" /\ last.leagueId = LeagueId /\ last.ret = 736
    /\ leagues[LeagueId].isDrafting /\ ~leagues[LeagueId].draftComplete
    /\ leagues[LeagueId].availablePlayers # << >>
    /\ leagues[LeagueId].teamOwners # << >>
    /\ out = << >>

(* C7: a pick of a player whose id, in canonical string form, is not in    *)
(* availablePlayers changes none of teams, availablePlayers,               *)
(* currentTeamIndex and draftComplete, whoever issues it.                  *)
C7_UnavailablePickNoChange ==
    [][\A s \in SocketIds, l \in DOMAIN leagues :
         \A teamIndex \in TeamIndexInputs(leagues, l),
            player \in PlayerInputs(leagues, l, s) :
              ( /\ PickStep(s, l, teamIndex, player)
                /\ ~InPool(leagues[l], player) )
              => /\ leagues'[l].teams = leagues[l].teams
                 /\ leagues'[l].availablePlayers = leagues[l].availablePlayers
                 /\ leagues'[l].currentTeamIndex = leagues[l].currentTeamIndex
                 /\ leagues'[l].draftComplete = leagues[l].draftComplete
      ]_vars

\* the owner of a slot of a drafting league was just refused a player that
\* is not in the pool, while the pool still holds others
C7_Witness ==
    /\ last.cmd = "draft-pick" /\ last.leagueId = LeagueId /\ last.ret = 745
    /\ leagues[LeagueId].isDrafting
    /\ leagues[LeagueId].availablePlayers # << >>

(* C8: while isDrafting is false no roster of the league grows, and a pick *)
(* issued then leaves the league record unchanged and emits nothing.       *)
C8_NoPickBeforeStart ==
    [][\A l \in DOMAIN leagues :
         ~leagues[l].isDrafting =>
            /\ \A t \in DOMAIN leagues[l].teams :
                  Len(leagues'[l].teams[t]) <= Len(leagues[l].teams[t])
            /\ SomePickStep(l) => leagues' = leagues /\ out' = << >>
      ]_vars

\* a pick was just refused in a league that has an owner and a pool but
\* has not been started
C8_Witness ==
    /\ last.cmd = "draft-pick" /\ last.leagueId = LeagueId /\ last.ret = 732
    /\ ~leagues[LeagueId].isDrafting
    /\ leagues[LeagueId].teamOwners # << >>
    /\ leagues[LeagueId].availablePlayers # << >>

(* C9: in every reachable state of a league, draftComplete is true exactly *)
(* when every roster of the league has length 6.                           *)
C9_CompleteIffAllSix ==
    \A l \in DOMAIN leagues :
        leagues[l].draftComplete <=> EveryRosterHasSix(leagues[l])

SnakeTerm(n, k) ==
    LET r == k % (2 * n) IN IF r < n THEN r ELSE 2 * n - 1 - r

C11_SnakeSequence ==
    \A l \in DOMAIN leagues :
        LET league == leagues[l]
            n == Len(league.teamNames)
            k == TotalPicked(league)
        IN  (league.isDrafting /\ n >= 1) =>
              /\ league.currentTeamIndex = SnakeTerm(n, k)
              /\ (n = 4 /\ k < 10) =>
                    league.currentTeamIndex = <<0, 1, 2, 3, 3, 2, 1, 0, 0, 1>>[k + 1]
              /\ (n = 2 /\ k < 6) =>
                    league.currentTeamIndex = <<0, 1, 1, 0, 0, 1>>[k + 1]

\* nine picks were accepted in a league of four teams: the turn is at the
\* tenth term of the sequence
C11_Witness ==
    /\ Len(leagues[LeagueId].teamNames) = 4
    /\ TotalPicked(leagues[LeagueId]) = 9
    /\ leagues[LeagueId].currentTeamIndex = 1
    /\ leagues[LeagueId].snakeDirection = 1
    /\ last.cmd = "draft-pick" /\ last.ret = 777

(* C12: in every reachable state of a league currentTeamIndex is an        *)
(* integer of [0, teamCount) and snakeDirection is +1 or -1.                *)
C12_TurnInRange ==
    \A l \in DOMAIN leagues :
        /\ leagues[l].currentTeamIndex \in 0..(Len(leagues[l].teamNames) - 1)
        /\ leagues[l].snakeDirection \in {1, -1}

(* C13: commands on one league are serializable, a join suspended at its   *)
(* await included. Applied on its own a join changes no field of a league  *)
(* but availablePlayers, so in any serial order of the commands the claims,*)
(* start and picks applied while a join was suspended are still in the     *)
(* record after the join has written: the step that resumes a join leaves  *)
(* teamOwners, teams, currentTeamIndex, snakeDirection, isDrafting and     *)
(* draftComplete of every league as it found them.                         *)
C13_JoinKeepsAppliedCommands ==
    [][\A s \in SocketIds :
         JoinDraftResume(s) =>
            \A l \in DOMAIN leagues :
               /\ l \in DOMAIN leagues'
               /\ leagues'[l].teamOwners = leagues[l].teamOwners
               /\ leagues'[l].teams = leagues[l].teams
               /\ leagues'[l].currentTeamIndex = leagues[l].currentTeamIndex
               /\ leagues'[l].snakeDirection = leagues[l].snakeDirection
               /\ leagues'[l].isDrafting = leagues[l].isDrafting
               /\ leagues'[l].draftComplete = leagues[l].draftComplete
      ]_vars

(* C14: a join, claim, start, pick or league creation addressed to one     *)
(* league never changes the record of another league: every step of such a *)
(* command leaves the record of every league it is not addressed to as it  *)
(* found it.                                                               *)
LeagueCommands ==
    {"join-draft", "assign-team", "start-draft", "draft-pick", "post-leagues"}

C14_LeaguesIndependent ==
    [][\A b \in DOMAIN leagues :
         (last'.cmd \in LeagueCommands /\ last'.leagueId # b)
            => (b \in DOMAIN leagues' /\ leagues'[b] = leagues[b])
      ]_vars

(* C15: a start on a league that is drafting changes nothing and emits     *)
(* nothing; a start on a league that is not drafting sets isDrafting true, *)
(* currentTeamIndex 0, snakeDirection +1, draftComplete false and every    *)
(* roster empty, changes nothing else, and broadcasts that state.          *)
C15_StartSemantics ==
    [][\A s \in SocketIds, l \in DOMAIN leagues :
         StartDraft(s, l) =>
            IF leagues[l].isDrafting
            THEN leagues' = leagues /\ out' = << >>
            ELSE LET after == leagues'[l]
                 IN  /\ after.isDrafting = TRUE
                     /\ after.currentTeamIndex = 0
                     /\ after.snakeDirection = 1
                     /\ after.draftComplete = FALSE
                     /\ DOMAIN after.teams = 0..(Len(leagues[l].teamNames) - 1)
                     /\ \A t \in DOMAIN after.teams : after.teams[t] = << >>
                     /\ after.teamNames = leagues[l].teamNames
                     /\ after.availablePlayers = leagues[l].availablePlayers
                     /\ \A b \in DOMAIN leagues \ {l} : leagues'[b] = leagues[b]
                     /\ out' = << [ev |-> "draft-update", to |-> Connected,
                                   leagueId |-> l,
                                   state |-> [teams |-> after.teams,
                                              availablePlayers |-> after.availablePlayers,
                                              currentTeamIndex |-> 0,
                                              snakeDirection |-> 1,
                                              isDrafting |-> TRUE,
                                              draftComplete |-> FALSE]] >>
      ]_vars

\* a start was just applied to a league reopened after its first pick: the
\* rosters are empty again and the pool is one player short
C15_Witness ==
    /\ last.cmd = "start-draft" /\ last.ret = 727
    /\ \E l \in DOMAIN leagues :
          /\ last.leagueId = l
          /\ leagues[l].isDrafting
          /\ TotalPicked(leagues[l]) = 0
          /\ Len(leagues[l].availablePlayers) = Cardinality(seeded[l]) - 1
          /\ out = <<DraftUpdate(l, leagues[l])>>

(* C16: an applied start on a league with partially filled teams leaves    *)
(* every roster empty and teamOwners empty, so that a pick accepted after  *)
(* it comes from a session that claimed its slot after the start.          *)
C16_StartClearsOwnership ==
    [][\A s \in SocketIds, l \in DOMAIN leagues :
         ( /\ StartDraft(s, l)
           /\ ~leagues[l].isDrafting
           /\ TotalPicked(leagues[l]) > 0 )
         => /\ \A t \in DOMAIN leagues'[l].teams : leagues'[l].teams[t] = << >>
            /\ leagues'[l].teamOwners = << >>
      ]_vars

(* C17: an applied start on a league whose availablePlayers is empty       *)
(* re-seeds the pool: after every applied start availablePlayers is not    *)
(* empty, and the start did not throw.                                     *)
C17_StartReseeds ==
    [][\A s \in SocketIds, l \in DOMAIN leagues :
         (StartDraft(s, l) /\ ~leagues[l].isDrafting)
         => /\ leagues'[l].availablePlayers # << >>
            /\ ~last'.threw
      ]_vars

(* C18: a claim of any slot by any session on a league whose draft is      *)
(* complete is answered "Draft is already complete. You cannot change      *)
(* teams." and leaves teamOwners, and the rest of the store, unchanged.    *)
C18_ClaimAfterComplete ==
    [][\A s \in SocketIds, l \in DOMAIN leagues :
         \A teamIndex \in TeamIndexInputs(leagues, l) :
            (AssignTeam(s, l, teamIndex) /\ leagues[l].draftComplete)
            => /\ leagues' = leagues
               /\ out' = <<[ev |-> "team-assigned", to |-> {s}, success |-> FALSE,
                            message |-> "Draft is already complete. You cannot change teams."]>>
      ]_vars

\* a claim was just refused on a league whose draft is complete
C18_Witness ==
    /\ last.cmd = "assign-team" /\ last.leagueId = LeagueId /\ last.ret = 680
    /\ leagues[LeagueId].draftComplete
    /\ EveryRosterHasSix(leagues[LeagueId])
    /\ Len(leagues[LeagueId].teamNames) >= 1
    /\ \E s \in SocketIds :
          out = <<TeamAssigned(s, FALSE,
                    "Draft is already complete. You cannot change teams.")>>

(* C19: the disconnect of a session has no effect on a league whose draft  *)
(* is complete: its teamOwners is the same before and after the step.      *)
C19_LeaveKeepsCompleted ==
    [][\A s \in SocketIds :
         Disconnect(s) =>
            \A l \in DOMAIN leagues :
               leagues[l].draftComplete =>
                  leagues'[l].teamOwners = leagues[l].teamOwners
      ]_vars

(* C20: the disconnect of a session removes, in every league whose draft   *)
(* is not complete, every teamOwners entry held by the session and no      *)
(* entry held by another session, changes none of teams, availablePlayers, *)
(* currentTeamIndex, snakeDirection, isDrafting and draftComplete, and     *)
(* applied a second time it leaves the store as the first left it.         *)
C20_LeaveReleasesOwnSlots ==
    [][\A s \in SocketIds :
         Disconnect(s) =>
            /\ \A l \in DOMAIN leagues :
                 ~leagues[l].draftComplete =>
                    LET before == leagues[l].teamOwners
                        after  == leagues'[l].teamOwners
                    IN  /\ DOMAIN after = {t \in DOMAIN before : before[t] # s}
                        /\ \A t \in DOMAIN after : after[t] = before[t]
                        /\ leagues'[l].teams = leagues[l].teams
                        /\ leagues'[l].availablePlayers = leagues[l].availablePlayers
                        /\ leagues'[l].currentTeamIndex = leagues[l].currentTeamIndex
                        /\ leagues'[l].snakeDirection = leagues[l].snakeDirection
                        /\ leagues'[l].isDrafting = leagues[l].isDrafting
                        /\ leagues'[l].draftComplete = leagues[l].draftComplete
            /\ disconnect(leagues', s).data = leagues'
      ]_vars

\* a session that held slots in two leagues, one of them with a pick on its
\* roster, has just disconnected; the other session still holds its slots
C20_Witness ==
    /\ last.cmd = "disconnect"
    /\ \E s \in SocketIds : \E o \in SocketIds \ {s} :
          /\ sockets[s] = "closed" /\ sockets[o] = "connected"
          /\ \A l \in DOMAIN leagues :
                /\ ~leagues[l].draftComplete
                /\ \E t \in DOMAIN leagues[l].teamOwners : leagues[l].teamOwners[t] = o
                /\ \A t \in DOMAIN leagues[l].teamOwners : leagues[l].teamOwners[t] # s
          /\ \E l \in DOMAIN leagues : \E t \in DOMAIN leagues[l].teams :
                /\ leagues[l].teams[t] # << >>
                /\ t \notin DOMAIN leagues[l].teamOwners
          /\ Cardinality(DOMAIN leagues) >= 2

C22_SeedingNeverFailsJoin ==
    [][\A s \in SocketIds :
         (JoinDraftResume(s) /\ joins[s].leagueId \in DOMAIN leagues)
         => /\ Len(out') = 1
            /\ out'[1].ev = "draft-status"
            /\ out'[1].to = {s}
            /\ out'[1].error = ""
            /\ out'[1].state.availablePlayers # << >>
      ]_vars

(* C23: an accepted pick emits exactly one broadcast, to every connected   *)
(* session, that carries the complete record after the pick (teams,        *)
(* availablePlayers, currentTeamIndex, snakeDirection, isDrafting,         *)
(* draftComplete) with the four effects applied: the player appended to    *)
(* the roster, removed from the pool, the turn advanced and draftComplete  *)
(* recomputed. A rejected pick emits nothing.                              *)
C23_PickBroadcast ==
    [][\A s \in SocketIds, l \in DOMAIN leagues :
         \A teamIndex \in TeamIndexInputs(leagues, l),
            player \in PlayerInputs(leagues, l, s) :
              PickStep(s, l, teamIndex, player) =>
                 IF leagues' # leagues
                 THEN LET after == leagues'[l]
                      IN  /\ out' = << [ev |-> "draft-update", to |-> Connected,
                                        leagueId |-> l,
                                        state |-> [teams |-> after.teams,
                                                   availablePlayers |-> after.availablePlayers,
                                                   currentTeamIndex |-> after.currentTeamIndex,
                                                   snakeDirection |-> after.snakeDirection,
                                                   isDrafting |-> after.isDrafting,
                                                   draftComplete |-> after.draftComplete]] >>
                          /\ after.teams[teamIndex] = Append(leagues[l].teams[teamIndex], player)
                          /\ ~InPool(after, player)
                          /\ Len(after.availablePlayers) < Len(leagues[l].availablePlayers)
                          /\ <<after.currentTeamIndex, after.snakeDirection>>
                                # <<leagues[l].currentTeamIndex, leagues[l].snakeDirection>>
                          /\ after.draftComplete = EveryRosterHasSix(after)
                          /\ after.isDrafting
                 ELSE out' = << >>
      ]_vars

\* a pick was just accepted with two sessions connected: both are the
\* addressees of the broadcast of the record it left
C23_Witness ==
    /\ last.cmd = "draft-pick" /\ last.ret = 777
    /\ Cardinality(Connected) >= 2
    /\ \E l \in DOMAIN leagues :
          /\ last.leagueId = l
          /\ out = <<DraftUpdate(l, leagues[l])>>
          /\ TotalPicked(leagues[l]) >= 1

(* C24: league ids are unique and increasing: the id a creation assigns,   *)
(* also when another creation was in flight with it, is the id of no       *)
(* league of the store and is greater than every id of the store.          *)
C24_LeagueIdsUnique ==
    [][\A c \in HttpClients :
         (PostLeaguesResume(c) /\ last'.ret = 578)
         => LET id == joins[c].leagueId
            IN  /\ id \notin DOMAIN leagues
                /\ \A x \in DOMAIN leagues : id > x
      ]_vars

(* C25: currentTeamIndex and snakeDirection of a league change only in the *)
(* step of an accepted pick on it; an applied start puts them back to 0    *)
(* and +1; a join, a claim, a disconnect, a rejected pick and a start on a *)
(* drafting league leave both as they are.                                 *)
C25_TurnChangesOnlyOnPick ==
    [][\A l \in DOMAIN leagues :
         ( l \in DOMAIN leagues' /\
           <<leagues'[l].currentTeamIndex, leagues'[l].snakeDirection>>
              # <<leagues[l].currentTeamIndex, leagues[l].snakeDirection>> )
         => \/ /\ last'.cmd = "draft-pick" /\ last'.leagueId = l
               /\ last'.ret = 777
            \/ /\ last'.cmd = "start-draft" /\ last'.leagueId = l
               /\ last'.ret = 727
               /\ leagues'[l].currentTeamIndex = 0
               /\ leagues'[l].snakeDirection = 1
      ]_vars

(* C26: a claim or a pick whose slot index is outside [0, teamCount) is a  *)
(* silent rejection, also when the issuing session is recorded as owner of *)
(* the index: no exception leaves the handler and the league record is     *)
(* unchanged.                                                              *)
C26_OutOfRangeSlotRejected ==
    [][\A s \in SocketIds, l \in DOMAIN leagues :
         \A teamIndex \in TeamIndexInputs(leagues, l) :
            ( /\ teamIndex \notin 0..(Len(leagues[l].teamNames) - 1)
              /\ \/ AssignTeam(s, l, teamIndex)
                 \/ \E player \in PlayerInputs(leagues, l, s) :
                       PickStep(s, l, teamIndex, player) )
            => /\ ~last'.threw
               /\ leagues' = leagues
      ]_vars

(* C27: when the write of an accepted pick fails, no exception leaves the  *)
(* pick handler, and the pick is not lost: the record that the next        *)
(* command to write the league persists has the player on the roster.      *)
C27_FailedWriteKeepsPick ==
    [][/\ (last'.cmd = "draft-pick" /\ last'.ret = 764) => ~last'.threw
       /\ ( /\ last.cmd = "draft-pick" /\ last.ret = 764
            /\ leagues' # leagues
            /\ last.leagueId \in DOMAIN leagues'
            /\ leagues'[last.leagueId].isDrafting )
          => \E i \in DOMAIN leagues'[last.leagueId].teams[last.teamIndex] :
                String(leagues'[last.leagueId].teams[last.teamIndex][i].id)
                   = String(last.player.id)
      ]_vars

(* C28: the league update request changes none of teams, availablePlayers, *)
(* currentTeamIndex, snakeDirection, isDrafting, draftComplete and         *)
(* teamOwners of a league.                                                 *)
C28_UpdateKeepsDraftState ==
    [][\A l \in DOMAIN leagues, body \in PutBodies :
         PutLeague(l, body) =>
            /\ leagues'[l].teams = leagues[l].teams
            /\ leagues'[l].availablePlayers = leagues[l].availablePlayers
            /\ leagues'[l].currentTeamIndex = leagues[l].currentTeamIndex
            /\ leagues'[l].snakeDirection = leagues[l].snakeDirection
            /\ leagues'[l].isDrafting = leagues[l].isDrafting
            /\ leagues'[l].draftComplete = leagues[l].draftComplete
            /\ leagues'[l].teamOwners = leagues[l].teamOwners
      ]_vars

(* C29: in every reachable state no team roster holds more than           *)
(* RosterSize players.                                                     *)
C29_RosterAtMostSix ==
    \A l \in DOMAIN leagues : \A t \in DOMAIN leagues[l].teams :
        Len(leagues[l].teams[t]) <= RosterSize

(* C30: once draftComplete is true for a league, every later join-draft,   *)
(* assign-team, start-draft, draft-pick and disconnect leaves it true and  *)
(* leaves every roster of the league as it is.                             *)
C30_CompletionStable ==
    [][\A l \in DOMAIN leagues :
         leagues[l].draftComplete
            => /\ l \in DOMAIN leagues'
               /\ leagues'[l].draftComplete
               /\ leagues'[l].teams = leagues[l].teams
      ]_vars

----------------------------------------------------------------------------
(* A draft played to its end. LiveSpec: one league of LiveTeams teams      *)
(* whose pool holds RosterSize players per team; each client claims a      *)
(* slot, the draft is started and the owners send picks for the first      *)
(* available player, at any time, as draft-pick allows. A client whose     *)
(* pick would be accepted eventually sends one.                            *)

LiveTeams == 2

LiveInit ==
    /\ leagues = (LeagueId :>
                    newLeague(LiveTeams, FetchedPlayers(RosterSize * LiveTeams)))
    /\ seeded = (LeagueId :>
                    CanonicalIds(FetchedPlayers(RosterSize * LiveTeams)))
    /\ sockets = [s \in SocketIds |-> "connected"]
    /\ joins = << >>
    /\ fetches = 0
    /\ last = NoLast
    /\ out = << >>

\* a draft-pick of client s that the handler accepts
LivePick(s, l) ==
    /\ sockets[s] = "connected"
    /\ leagues[l].availablePlayers # << >>
    /\ \E teamIndex \in DOMAIN leagues[l].teams :
          LET r == draftPick(leagues, s, l, teamIndex,
                             Player(leagues[l].availablePlayers[1].id))
          IN  /\ r.ret = 777
              /\ Ran("draft-pick", l, r)
    /\ UNCHANGED <<sockets, joins, fetches, seeded>>

\* client s claims slot s - 1; the first client starts the draft
LiveNext ==
    \/ \E s \in SocketIds : AssignTeam(s, LeagueId, s - 1)
    \/ StartDraft(1, LeagueId)
    \/ \E s \in SocketIds : LivePick(s, LeagueId)

LiveSpec ==
    /\ LiveInit
    /\ [][LiveNext]_vars
    /\ WF_vars(\E s \in SocketIds : LivePick(s, LeagueId))
    /\ \A s \in SocketIds : WF_vars(LivePick(s, LeagueId))

(* C31: a started draft whose pool was seeded with at least RosterSize     *)
(* players per team and whose every slot has an owner eventually reaches   *)
(* draftComplete, when the owners keep sending picks that are accepted.    *)
C31_StartedDraftCompletes ==
    ( /\ leagues[LeagueId].isDrafting
      /\ Cardinality(seeded[LeagueId])
            >= RosterSize * Len(leagues[LeagueId].teamNames)
      /\ \A t \in DOMAIN leagues[LeagueId].teams :
            \E s \in SocketIds : RecordedOwner(leagues[LeagueId], t, s) )
       ~> leagues[LeagueId].draftComplete

=============================================================================
